---- MODULE Spec2Model ----
(***************************************************************************)
(* State-machine model of TaskDistributorAgent                             *)
(* (src/src/agents/task_distributor.py): one agent that handles            *)
(* SegmentationMessage requests.  A request asks the injected model        *)
(* handler for boundary tuples, builds one TextSegment per tuple, replaces *)
(* the content of oversize segments with the summarizer's output and       *)
(* returns a SegmentationResponse; any Exception is turned into a          *)
(* status-500 response.                                                    *)
(*                                                                         *)
(* Python strings are sequences of one-character strings; Optional values  *)
(* are <<>> (None) or <<v>>.                                               *)
(***************************************************************************)
EXTENDS Integers, Sequences, FiniteSets, TLC

(* ------------------------------ bounds -------------------------------- *)
MaxTextLen == 2
MaxBoundaries == 2
MaxChars == 2

(* ------------------------- program constants -------------------------- *)
SummaryCut == 100
StatusOk == 200
StatusError == 500

(* ------------------------------ helpers ------------------------------- *)
None == <<>>
Some(v) == <<v>>

Min(a, b) == IF a < b THEN a ELSE b
Max(a, b) == IF a > b THEN a ELSE b

\* The characters the request texts are made of: text n is the first n of them.
Source == <<"A", "B", "C", "D", "E", "F">>
Texts == { SubSeq(Source, 1, n) : n \in 0..MaxTextLen }

\* Python's s[:n] for n >= 0.
Head_(s, n) == SubSeq(s, 1, Min(n, Len(s)))

\* Python's slice index normalisation for a sequence of length n: a negative
\* index counts from the end, and the result is clamped to 0..n.
SliceIndex(x, n) == IF x < 0 THEN Max(x + n, 0) ELSE Min(x, n)

\* Python's text[start:end].
Slice(s, start, end) ==
    LET lo == SliceIndex(start, Len(s))
        hi == SliceIndex(end, Len(s))
    IN  IF lo >= hi THEN <<>> ELSE SubSeq(s, lo + 1, hi)

(* ---------------------------- data classes ---------------------------- *)
TextSegment(content, start_idx, end_idx, requires_summary) ==
    [content |-> content, start_idx |-> start_idx, end_idx |-> end_idx,
     requires_summary |-> requires_summary]

SegmentationMessage(t, m) == [text |-> t, max_characters |-> m]

SegmentationResponse(segs, status_code, error_message) ==
    [segments |-> segs, status_code |-> status_code,
     error_message |-> error_message]

(* ----------------------------- exceptions ----------------------------- *)
\* An exception object: its class and its args tuple.
Exc(type, args) == [type |-> type, args |-> args]

\* Classes caught by "except Exception"; CancelledError derives from
\* BaseException only and passes through the handler.
IsException(e) == e.type \in {"RuntimeError", "KeyError", "ValueError"}

\* str(e): "" without args, the argument with one; KeyError shows its repr.
StrOfException(e) ==
    IF Len(e.args) = 0 THEN ""
    ELSE IF e.type = "KeyError" THEN "'" \o e.args[1] \o "'"
    ELSE e.args[1]

\* What an injected provider may raise.
ProviderErrors ==
    { Exc("RuntimeError", <<"model unavailable">>),
      Exc("RuntimeError", <<>>),
      Exc("KeyError", <<"k">>),
      Exc("CancelledError", <<>>) }

\* "for start, end in boundaries" on a tuple that is not a pair.
UnpackError(item) ==
    IF Len(item) < 2
    THEN Exc("ValueError", <<"not enough values to unpack">>)
    ELSE Exc("ValueError", <<"too many values to unpack">>)

(* ----------------------------- summarizers ---------------------------- *)
SummaryPrefix == <<"[", "S", "u", "m", "m", "a", "r", "y", "]", " ">>
SummarySuffix == <<".", ".", ".">>

\* Faulty variant of mock_summarizer: the text is not cut.
MockSummarizerUncut(t) == SummaryPrefix \o t \o SummarySuffix

\* f"[Summary] {text[:100]}..."
mock_summarizer(t) == SummaryPrefix \o Head_(t, SummaryCut) \o SummarySuffix

\* The summarizer handlers an agent can be constructed with: none (the mock
\* is used), one that keeps the first character, one that returns its input.
SummarizerChoices == {"None", "first_char", "echo"}

\* self._summarizer_handler = summarizer_handler or self._mock_summarizer
SelectSummarizer(supplied) == IF supplied = "None" THEN "mock" ELSE supplied

\* self._summarizer_handler(text), when it returns.
SummarizerProvider(h, t) ==
    CASE h = "mock"       -> mock_summarizer(t)
      [] h = "first_char" -> Head_(t, 1)
      [] h = "echo"       -> t

(* -------------------------- boundary provider -------------------------- *)
\* Tuples the model handler may put in its list: index pairs, in range or
\* not (nothing validates them), and tuples that are not pairs.
BoundaryItems(t) ==
    { <<s, e>> : s \in -1..Len(t), e \in 0..(Len(t) + 1) } \cup { <<0>> }

RECURSIVE ListsOf(_, _)
ListsOf(S, n) ==
    IF n = 0 THEN { <<>> }
    ELSE LET shorter == ListsOf(S, n - 1)
         IN  shorter \cup { Append(l, x) : l \in { m \in shorter : Len(m) = n - 1 }, x \in S }

BoundaryLists(t) == ListsOf(BoundaryItems(t), MaxBoundaries)

(* ------------------------------- state -------------------------------- *)
VARIABLES
    summarizer_handler, \* self._summarizer_handler
    pc,                 \* position of the current handle_segmentation call
    text,               \* message.text
    max_chars,          \* message.max_characters
    boundaries,         \* _segment_text: boundaries
    i,                  \* _segment_text: 1-based position of the for loop
    segment,            \* _segment_text: segment (None or the one just built)
    segments,           \* _segment_text: segments
    response,           \* what handle_segmentation returned (None until then)
    raised,             \* the exception raised in this call (None if none)
    trace,              \* provider calls and constructions of this call, in order
    \* Several calls in flight on one agent whose providers are deterministic
    \* functions of their arguments (left idle where one call at a time with
    \* opaque providers is modelled):
    model_handler,      \* self._model_handler, by name
    brittle,            \* whether the supplied summarizer raises on long input
    messages,           \* the requests the callers may send
    cpc,                \* per caller: position of its handle_segmentation call
    requests,           \* per caller: the message it sent
    frames,             \* per call frame: the locals of _segment_text
    responses,          \* per caller: what its call returned (None until then)
    completed           \* per message: calls answered so far and their answers

\* The variables of the one-call-at-a-time model that belong to the call.
callVars == <<pc, text, max_chars, boundaries, i, segment, segments, response,
              raised, trace>>

\* The variables of the several-calls model.
concVars == <<model_handler, brittle, messages, cpc, requests, frames,
              responses, completed>>

vars == <<summarizer_handler, pc, text, max_chars, boundaries, i, segment,
          segments, response, raised, trace, concVars>>

Event(op, idx, arg) == [op |-> op, idx |-> idx, arg |-> arg]

Init ==
    /\ \E supplied \in SummarizerChoices :
           summarizer_handler = SelectSummarizer(supplied)
    /\ pc = "Idle"
    /\ text = <<>>
    /\ max_chars = 0
    /\ boundaries = <<>>
    /\ i = 0
    /\ segment = None
    /\ segments = <<>>
    /\ response = None
    /\ raised = None
    /\ trace = <<>>
    /\ model_handler = "opaque"
    /\ brittle = FALSE
    /\ messages = {}
    /\ cpc = <<>>
    /\ requests = <<>>
    /\ frames = <<>>
    /\ responses = <<>>
    /\ completed = <<>>

(* ------------------------------ actions ------------------------------- *)
\* Faulty variant of Raise: the except branch returns the segments built so far.
RaisePartial(e) ==
    /\ raised' = Some(e)
    /\ IF IsException(e)
       THEN /\ pc' = "Failed"
            /\ response' = Some(SegmentationResponse(segments, StatusError,
                                                     Some(StrOfException(e))))
       ELSE /\ pc' = "Raised"
            /\ response' = None

\* Faulty variant of Raise: the except branch leaves error_message at its default.
RaiseNoMessage(e) ==
    /\ raised' = Some(e)
    /\ IF IsException(e)
       THEN /\ pc' = "Failed"
            /\ response' = Some(SegmentationResponse(<<>>, StatusError, None))
       ELSE /\ pc' = "Raised"
            /\ response' = None

\* except Exception as e: return SegmentationResponse([], 500, str(e));
\* anything that is not an Exception leaves the handler without a response.
Raise(e) ==
    /\ raised' = Some(e)
    /\ IF IsException(e)
       THEN /\ pc' = "Failed"
            /\ response' = Some(SegmentationResponse(<<>>, StatusError,
                                                     Some(StrOfException(e))))
       ELSE /\ pc' = "Raised"
            /\ response' = None

\* A message is delivered to handle_segmentation (one call at a time here).
HandleSegmentation ==
    /\ pc \in {"Idle", "Completed", "Failed", "Raised"}
    /\ \E t \in Texts, m \in 0..MaxChars :
           LET message == SegmentationMessage(t, m)
           IN  /\ text' = message.text
               /\ max_chars' = message.max_characters
    /\ pc' = "Received"
    /\ boundaries' = <<>>
    /\ i' = 0
    /\ segment' = None
    /\ segments' = <<>>
    /\ response' = None
    /\ raised' = None
    /\ trace' = <<>>
    /\ UNCHANGED <<concVars, summarizer_handler>>

\* Faulty variant of ModelHandlerReturns: the loop starts at the second tuple.
ModelHandlerReturnsSkipFirst ==
    /\ pc = "Received"
    /\ \E b \in BoundaryLists(text) : boundaries' = b
    /\ i' = 2
    /\ segments' = <<>>
    /\ pc' = "Loop"
    /\ trace' = Append(trace, Event("model_handler", 0, text))
    /\ UNCHANGED <<concVars, summarizer_handler, text, max_chars, segment, response, raised>>

\* boundaries = self._model_handler(text, max_chars); segments = []
ModelHandlerReturns ==
    /\ pc = "Received"
    /\ \E b \in BoundaryLists(text) : boundaries' = b
    /\ i' = 1
    /\ segments' = <<>>
    /\ pc' = "Loop"
    /\ trace' = Append(trace, Event("model_handler", 0, text))
    /\ UNCHANGED <<concVars, summarizer_handler, text, max_chars, segment, response, raised>>

ModelHandlerRaises ==
    /\ pc = "Received"
    /\ \E e \in ProviderErrors : Raise(e)
    /\ trace' = Append(trace, Event("model_handler", 0, text))
    /\ UNCHANGED <<concVars, summarizer_handler, text, max_chars, boundaries, i, segment,
                   segments>>

\* Faulty variant of NewSegment: start_idx and end_idx are exchanged.
NewSegmentSwapped(t, start, end) == TextSegment(Slice(t, start, end), end, start, FALSE)

\* TextSegment(content=text[start:end], start_idx=start, end_idx=end)
NewSegment(t, start, end) == TextSegment(Slice(t, start, end), start, end, FALSE)

\* for start, end in boundaries: segment = TextSegment(...)
BuildSegment ==
    /\ pc = "Loop"
    /\ i <= Len(boundaries)
    /\ Len(boundaries[i]) = 2
    /\ LET start == boundaries[i][1]
           end == boundaries[i][2]
       IN  segment' = Some(NewSegment(text, start, end))
    /\ pc' = "Process"
    /\ trace' = Append(trace, Event("TextSegment", i, <<>>))
    /\ UNCHANGED <<concVars, summarizer_handler, text, max_chars, boundaries, i, segments,
                   response, raised>>

\* for start, end in boundaries: the tuple does not unpack into two values
UnpackRaises ==
    /\ pc = "Loop"
    /\ i <= Len(boundaries)
    /\ Len(boundaries[i]) # 2
    /\ Raise(UnpackError(boundaries[i]))
    /\ trace' = Append(trace, Event("unpack", i, <<>>))
    /\ UNCHANGED <<concVars, summarizer_handler, text, max_chars, boundaries, i, segment,
                   segments>>

\* Faulty variant of Oversize: a segment of exactly max_chars counts as oversize.
OversizeInclusive(seg, max) == Len(seg.content) >= max

\* Faulty variant of Oversize: the limit is taken one too high.
OversizeOffByOne(seg, max) == Len(seg.content) > max + 1

\* _process_large_segment: if len(segment.content) > max_chars
Oversize(seg, max) == Len(seg.content) > max

\* Faulty variant of Summarized: end_idx is recomputed from the summary's length.
SummarizedReindexed(seg, summary) ==
    TextSegment(summary, seg.start_idx, seg.start_idx + Len(summary), TRUE)

\* Faulty variant of Summarized: the indices are made to describe the summary.
SummarizedRebased(seg, summary) == TextSegment(summary, 0, Len(summary), TRUE)

\* _process_large_segment: the segment built around the summary
Summarized(seg, summary) == TextSegment(summary, seg.start_idx, seg.end_idx, TRUE)

\* _process_large_segment returns the segment itself; segments.append(...)
KeepSegment ==
    /\ pc = "Process"
    /\ ~Oversize(segment[1], max_chars)
    /\ segments' = Append(segments, segment[1])
    /\ i' = i + 1
    /\ pc' = "Loop"
    /\ UNCHANGED <<concVars, summarizer_handler, text, max_chars, boundaries, segment,
                   response, raised, trace>>

\* Faulty variant of SummarizerArg: the content is cut to the limit before the call.
SummarizerArgCut(seg) == Head_(seg.content, max_chars)

\* The argument _process_large_segment hands to the summarizer.
SummarizerArg(seg) == seg.content

\* _process_large_segment: the summarizer returns; segments.append(...)
SummarizerReturns ==
    /\ pc = "Process"
    /\ Oversize(segment[1], max_chars)
    /\ LET summary == SummarizerProvider(summarizer_handler, SummarizerArg(segment[1]))
       IN  segments' = Append(segments, Summarized(segment[1], summary))
    /\ i' = i + 1
    /\ pc' = "Loop"
    /\ trace' = Append(trace, Event("summarizer", i, SummarizerArg(segment[1])))
    /\ UNCHANGED <<concVars, summarizer_handler, text, max_chars, boundaries, segment,
                   response, raised>>

\* Faulty variant of SummarizerRaises: the error is swallowed and the call is
\* made once more.
SummarizerRaisesRetry ==
    /\ pc = "Process"
    /\ Oversize(segment[1], max_chars)
    /\ summarizer_handler # "mock"
    /\ Cardinality({ p \in 1..Len(trace) :
                        trace[p].op = "summarizer" /\ trace[p].idx = i }) < 2
    /\ trace' = Append(trace, Event("summarizer", i, SummarizerArg(segment[1])))
    /\ UNCHANGED <<concVars, summarizer_handler, pc, text, max_chars, boundaries, i, segment,
                   segments, response, raised>>

\* _process_large_segment: a supplied summarizer raises (the mock cannot)
SummarizerRaises ==
    /\ pc = "Process"
    /\ Oversize(segment[1], max_chars)
    /\ summarizer_handler # "mock"
    /\ \E e \in ProviderErrors : Raise(e)
    /\ trace' = Append(trace, Event("summarizer", i, SummarizerArg(segment[1])))
    /\ UNCHANGED <<concVars, summarizer_handler, text, max_chars, boundaries, i, segment,
                   segments>>

\* Faulty variant of Return: an empty segment list is reported as a failure.
ReturnEmptyIsError ==
    /\ pc = "Loop"
    /\ i > Len(boundaries)
    /\ response' = IF segments = <<>>
                   THEN Some(SegmentationResponse(<<>>, StatusError, Some("no segments")))
                   ELSE Some(SegmentationResponse(segments, StatusOk, None))
    /\ pc' = IF segments = <<>> THEN "Failed" ELSE "Completed"
    /\ UNCHANGED <<concVars, summarizer_handler, text, max_chars, boundaries, i, segment,
                   segments, raised, trace>>

\* return segments; return SegmentationResponse(segments=segments, status_code=200)
Return ==
    /\ pc = "Loop"
    /\ i > Len(boundaries)
    /\ response' = Some(SegmentationResponse(segments, StatusOk, None))
    /\ pc' = "Completed"
    /\ UNCHANGED <<concVars, summarizer_handler, text, max_chars, boundaries, i, segment,
                   segments, raised, trace>>

Next ==
    \/ HandleSegmentation
    \/ ModelHandlerReturns
    \/ ModelHandlerRaises
    \/ BuildSegment
    \/ UnpackRaises
    \/ KeepSegment
    \/ SummarizerReturns
    \/ SummarizerRaises
    \/ Return

Spec == Init /\ [][Next]_vars

(* ------------------- several calls on one agent ----------------------- *)
\* Callers that may have a handle_segmentation call in flight at a time.
NumRuns == 2
Runs == 1..NumRuns

\* The ten characters of the worked example, and a text longer than the
\* default summarizer's cut.
ScenarioText == <<"A", "B", "C", "D", "E", "F", "G", "H", "I", "J">>
LongText == [k \in 1..(SummaryCut + 5) |-> Source[((k - 1) % Len(Source)) + 1]]

\* Requests of the interleaving runs: a one- and a three-character text
\* under a limit of one.
ConcMessages ==
    { SegmentationMessage(SubSeq(Source, 1, 1), 1),
      SegmentationMessage(SubSeq(Source, 1, 3), 1) }

\* Requests for the default summarizer: the worked example and the long text.
DefaultMessages ==
    { SegmentationMessage(ScenarioText, 5), SegmentationMessage(LongText, 5) }

\* Deterministic model handlers an agent can be constructed with.
ModelHandlers == {"whole", "halves", "split_at_4", "ragged", "long_fails"}

\* self._model_handler(text, max_chars): None, or the exception it raises.
ModelHandlerError(h, t, m) ==
    IF h = "long_fails" /\ Len(t) > 2
    THEN Some(Exc("RuntimeError", <<"model unavailable">>))
    ELSE None

\* self._model_handler(text, max_chars), when it returns.
ModelHandlerResult(h, t, m) ==
    CASE h = "whole"      -> << <<0, Len(t)>> >>
      [] h = "halves"     -> << <<0, Len(t) \div 2>>, <<Len(t) \div 2, Len(t)>> >>
      [] h = "split_at_4" -> << <<0, 4>>, <<4, Len(t)>> >>
      [] h = "ragged"     -> << <<0, Len(t)>>, <<0>> >>
      [] h = "long_fails" -> << <<0, Len(t)>> >>

\* self._summarizer_handler(text): None, or the exception it raises; a
\* brittle supplied summarizer raises on inputs of more than two characters
\* (the mock never raises).
SummarizerError(b, h, t) ==
    IF b /\ h # "mock" /\ Len(t) > 2 THEN Some(Exc("KeyError", <<"k">>)) ELSE None

\* except Exception as e: return SegmentationResponse([], 500, str(e))
FailureResponse(e) ==
    SegmentationResponse(<<>>, StatusError, Some(StrOfException(e)))

\* return SegmentationResponse(segments=segments, status_code=200)
SuccessResponse(segs) == SegmentationResponse(segs, StatusOk, None)

\* _segment_text from pair k on, run by itself with segments acc built so
\* far: the response of the call.
RECURSIVE SegmentFrom(_, _, _, _, _, _, _)
SegmentFrom(h, b, t, m, bs, k, acc) ==
    IF k > Len(bs) THEN SuccessResponse(acc)
    ELSE IF Len(bs[k]) # 2 THEN FailureResponse(UnpackError(bs[k]))
    ELSE LET seg == NewSegment(t, bs[k][1], bs[k][2])
         IN  IF ~Oversize(seg, m)
             THEN SegmentFrom(h, b, t, m, bs, k + 1, Append(acc, seg))
             ELSE IF SummarizerError(b, h, SummarizerArg(seg)) # None
             THEN FailureResponse(SummarizerError(b, h, SummarizerArg(seg))[1])
             ELSE SegmentFrom(h, b, t, m, bs, k + 1,
                      Append(acc, Summarized(seg,
                                 SummarizerProvider(h, SummarizerArg(seg)))))

\* handle_segmentation(message) run by itself on an agent built with model
\* handler mh and summarizer h (brittle or not).
RunAlone(mh, h, b, message) ==
    IF ModelHandlerError(mh, message.text, message.max_characters) # None
    THEN FailureResponse(
             ModelHandlerError(mh, message.text, message.max_characters)[1])
    ELSE SegmentFrom(h, b, message.text, message.max_characters,
             ModelHandlerResult(mh, message.text, message.max_characters),
             1, <<>>)

\* Faulty variant of Frame: the locals are kept on the agent, one set for all
\* calls.
FrameShared(r) == 1

\* The frame holding the locals of caller r's call: each call has its own.
Frame(r) == r

\* Faulty variant of EmptySegments: the list of the call before is reused.
LeftoverSegments(f) == f.segments

\* segments = []
EmptySegments(f) == <<>>

\* A frame before anything is bound in it.
NoFrame ==
    [text |-> <<>>, max_chars |-> 0, boundaries |-> <<>>, i |-> 0,
     segment |-> None, segments |-> <<>>]

\* The record of answered calls after message msg was answered with resp
\* (calls are counted up to two).
Recorded(c, msg, resp) ==
    [c EXCEPT ![msg] = [n |-> Min(@.n + 1, 2), results |-> @.results \cup {resp}]]

\* An agent with deterministic providers, callers idle, requests from msgs.
InitSeveral(summarizers, msgs) ==
    /\ \E supplied \in summarizers :
           summarizer_handler = SelectSummarizer(supplied)
    /\ model_handler \in ModelHandlers
    /\ brittle \in BOOLEAN
    /\ brittle => summarizer_handler # "mock"
    /\ messages = msgs
    /\ cpc = [r \in Runs |-> "Idle"]
    /\ requests = [r \in Runs |-> SegmentationMessage(<<>>, 0)]
    /\ frames = [r \in Runs |-> NoFrame]
    /\ responses = [r \in Runs |-> None]
    /\ completed = [msg \in msgs |-> [n |-> 0, results |-> {}]]
    /\ pc = "Idle"
    /\ text = <<>>
    /\ max_chars = 0
    /\ boundaries = <<>>
    /\ i = 0
    /\ segment = None
    /\ segments = <<>>
    /\ response = None
    /\ raised = None
    /\ trace = <<>>

InitConc == InitSeveral({"None", "first_char"}, ConcMessages)

InitDefault == InitSeveral({"None", "first_char"}, DefaultMessages)

\* Caller r's call leaves through the except branch (or, for what is not
\* an Exception, without a response).
CRaise(r, e) ==
    /\ cpc' = [cpc EXCEPT ![r] = IF IsException(e) THEN "Failed" ELSE "Raised"]
    /\ responses' = [responses EXCEPT ![r] =
                         IF IsException(e) THEN Some(FailureResponse(e)) ELSE None]
    /\ completed' = IF IsException(e)
                    THEN Recorded(completed, requests[r], FailureResponse(e))
                    ELSE completed

\* A message is delivered to handle_segmentation for caller r; text and
\* max_chars are bound, the other locals are not yet.
CHandleSegmentation(r) ==
    /\ cpc[r] \in {"Idle", "Completed", "Failed", "Raised"}
    /\ \E message \in messages :
           /\ requests' = [requests EXCEPT ![r] = message]
           /\ frames' = [frames EXCEPT ![Frame(r)] =
                             [@ EXCEPT !.text = message.text,
                                       !.max_chars = message.max_characters]]
    /\ cpc' = [cpc EXCEPT ![r] = "Received"]
    /\ responses' = [responses EXCEPT ![r] = None]
    /\ UNCHANGED <<summarizer_handler, callVars, model_handler, brittle,
                   messages, completed>>

\* boundaries = self._model_handler(text, max_chars); segments = []
CModelHandlerReturns(r) ==
    /\ cpc[r] = "Received"
    /\ LET f == frames[Frame(r)]
       IN  /\ ModelHandlerError(model_handler, f.text, f.max_chars) = None
           /\ frames' = [frames EXCEPT ![Frame(r)] =
                  [f EXCEPT !.boundaries =
                                ModelHandlerResult(model_handler, f.text, f.max_chars),
                            !.i = 1,
                            !.segments = EmptySegments(f)]]
    /\ cpc' = [cpc EXCEPT ![r] = "Loop"]
    /\ UNCHANGED <<summarizer_handler, callVars, model_handler, brittle,
                   messages, requests, responses, completed>>

CModelHandlerRaises(r) ==
    /\ cpc[r] = "Received"
    /\ LET f == frames[Frame(r)]
       IN  /\ ModelHandlerError(model_handler, f.text, f.max_chars) # None
           /\ CRaise(r, ModelHandlerError(model_handler, f.text, f.max_chars)[1])
    /\ UNCHANGED <<summarizer_handler, callVars, model_handler, brittle,
                   messages, requests, frames>>

\* for start, end in boundaries: segment = TextSegment(...)
CBuildSegment(r) ==
    /\ cpc[r] = "Loop"
    /\ LET f == frames[Frame(r)]
       IN  /\ f.i <= Len(f.boundaries)
           /\ Len(f.boundaries[f.i]) = 2
           /\ frames' = [frames EXCEPT ![Frame(r)] =
                  [f EXCEPT !.segment =
                      Some(NewSegment(f.text, f.boundaries[f.i][1],
                                      f.boundaries[f.i][2]))]]
    /\ cpc' = [cpc EXCEPT ![r] = "Process"]
    /\ UNCHANGED <<summarizer_handler, callVars, model_handler, brittle,
                   messages, requests, responses, completed>>

\* for start, end in boundaries: the tuple does not unpack into two values
CUnpackRaises(r) ==
    /\ cpc[r] = "Loop"
    /\ LET f == frames[Frame(r)]
       IN  /\ f.i <= Len(f.boundaries)
           /\ Len(f.boundaries[f.i]) # 2
           /\ CRaise(r, UnpackError(f.boundaries[f.i]))
    /\ UNCHANGED <<summarizer_handler, callVars, model_handler, brittle,
                   messages, requests, frames>>

\* _process_large_segment returns the segment itself; segments.append(...)
CKeepSegment(r) ==
    /\ cpc[r] = "Process"
    /\ LET f == frames[Frame(r)]
       IN  /\ f.segment # None
           /\ ~Oversize(f.segment[1], f.max_chars)
           /\ frames' = [frames EXCEPT ![Frame(r)] =
                  [f EXCEPT !.segments = Append(f.segments, f.segment[1]),
                            !.i = f.i + 1]]
    /\ cpc' = [cpc EXCEPT ![r] = "Loop"]
    /\ UNCHANGED <<summarizer_handler, callVars, model_handler, brittle,
                   messages, requests, responses, completed>>

\* _process_large_segment: the summarizer returns; segments.append(...)
CSummarizerReturns(r) ==
    /\ cpc[r] = "Process"
    /\ LET f == frames[Frame(r)]
       IN  /\ f.segment # None
           /\ Oversize(f.segment[1], f.max_chars)
           /\ SummarizerError(brittle, summarizer_handler,
                              SummarizerArg(f.segment[1])) = None
           /\ frames' = [frames EXCEPT ![Frame(r)] =
                  [f EXCEPT !.segments = Append(f.segments,
                                Summarized(f.segment[1],
                                    SummarizerProvider(summarizer_handler,
                                        SummarizerArg(f.segment[1])))),
                            !.i = f.i + 1]]
    /\ cpc' = [cpc EXCEPT ![r] = "Loop"]
    /\ UNCHANGED <<summarizer_handler, callVars, model_handler, brittle,
                   messages, requests, responses, completed>>

\* _process_large_segment: the summarizer raises
CSummarizerRaises(r) ==
    /\ cpc[r] = "Process"
    /\ LET f == frames[Frame(r)]
       IN  /\ f.segment # None
           /\ Oversize(f.segment[1], f.max_chars)
           /\ SummarizerError(brittle, summarizer_handler,
                              SummarizerArg(f.segment[1])) # None
           /\ CRaise(r, SummarizerError(brittle, summarizer_handler,
                                        SummarizerArg(f.segment[1]))[1])
    /\ UNCHANGED <<summarizer_handler, callVars, model_handler, brittle,
                   messages, requests, frames>>

\* return segments; return SegmentationResponse(segments=segments, status_code=200)
CReturn(r) ==
    /\ cpc[r] = "Loop"
    /\ LET f == frames[Frame(r)]
       IN  /\ f.i > Len(f.boundaries)
           /\ responses' = [responses EXCEPT ![r] = Some(SuccessResponse(f.segments))]
           /\ completed' = Recorded(completed, requests[r], SuccessResponse(f.segments))
    /\ cpc' = [cpc EXCEPT ![r] = "Completed"]
    /\ UNCHANGED <<summarizer_handler, callVars, model_handler, brittle,
                   messages, requests, frames>>

NextConc ==
    \E r \in Runs :
        \/ CHandleSegmentation(r)
        \/ CModelHandlerReturns(r)
        \/ CModelHandlerRaises(r)
        \/ CBuildSegment(r)
        \/ CUnpackRaises(r)
        \/ CKeepSegment(r)
        \/ CSummarizerReturns(r)
        \/ CSummarizerRaises(r)
        \/ CReturn(r)

\* Interleaved calls with short requests.
SpecConc == InitConc /\ [][NextConc]_vars

\* Calls with the worked example and a text beyond the summarizer's cut.
SpecDefault == InitDefault /\ [][NextConc]_vars

(* ------------------------- derived quantities -------------------------- *)
Returned == response # None
Resp == response[1]

\* The slice of the text the k-th boundary pair selects.
PairSlice(k) == Slice(text, boundaries[k][1], boundaries[k][2])

\* 0 <= start <= end <= length(source_text)
InRange(start, end) == 0 <= start /\ start <= end /\ end <= Len(text)

\* Positions of the trace at which a summarizer call for pair k was made.
SummarizerCalls(k) ==
    { p \in 1..Len(trace) : trace[p].op = "summarizer" /\ trace[p].idx = k }

\* Number of segments constructed before position p of the trace.
BuiltBefore(p) == Cardinality({ q \in 1..(p - 1) : trace[q].op = "TextSegment" })

(* ------------------------------- claims -------------------------------- *)

\* C1: when the boundary provider, the construction of a segment or the
\* summarizer raises an Exception, the response has segments = [] and
\* status_code = 500; a response with status_code = 500 never carries
\* segments.
FailureContainment ==
    /\ (raised # None /\ IsException(raised[1])) =>
           /\ Returned
           /\ Resp.segments = <<>>
           /\ Resp.status_code = StatusError
    /\ (Returned /\ Resp.status_code = StatusError) => Resp.segments = <<>>

\* C1 witness: the summarizer failed on the second pair after the first
\* segment had already been summarized and appended.
FailureContainmentWitness ==
    /\ pc = "Failed"
    /\ Len(segments) = 1
    /\ segments[1].requires_summary
    /\ trace[Len(trace)].op = "summarizer"
    /\ trace[Len(trace)].idx = 2

\* C2: a successful response has exactly one segment per boundary pair, in
\* the order of the pairs, and segment k carries the indices of pair k.
OnePerBoundaryInOrder ==
    pc = "Completed" =>
        /\ Len(Resp.segments) = Len(boundaries)
        /\ \A k \in 1..Len(boundaries) :
               /\ Resp.segments[k].start_idx = boundaries[k][1]
               /\ Resp.segments[k].end_idx = boundaries[k][2]

\* C2 witness: two different non-overlapping in-range pairs were segmented.
OnePerBoundaryInOrderWitness ==
    /\ pc = "Completed"
    /\ boundaries = << <<0, 1>>, <<1, 2>> >>
    /\ Len(Resp.segments) = 2

\* C3: in a successful response the segment of every pair whose slice is
\* longer than max_characters has requires_summary = true and the
\* summarizer's output for exactly that slice as content.
OversizeIsSummarized ==
    pc = "Completed" =>
        \A k \in 1..Len(boundaries) :
            Len(PairSlice(k)) > max_chars =>
                /\ Resp.segments[k].requires_summary
                /\ Resp.segments[k].content =
                       SummarizerProvider(summarizer_handler, PairSlice(k))

\* C3 witness: a two-character slice was summarized under a limit of one.
OversizeIsSummarizedWitness ==
    /\ pc = "Completed"
    /\ max_chars = 1
    /\ \E k \in 1..Len(boundaries) :
           /\ Len(PairSlice(k)) = 2
           /\ Resp.segments[k].requires_summary

\* C4: in a successful response the segment of every pair whose slice is
\* at most max_characters long (equal included) has requires_summary =
\* false and the slice itself as content, and no summarizer call was made
\* for it.
WithinLimitIsVerbatim ==
    pc = "Completed" =>
        \A k \in 1..Len(boundaries) :
            Len(PairSlice(k)) <= max_chars =>
                /\ ~Resp.segments[k].requires_summary
                /\ Resp.segments[k].content = PairSlice(k)
                /\ SummarizerCalls(k) = {}

\* C4 witness: a slice of exactly max_characters characters was kept.
WithinLimitIsVerbatimWitness ==
    /\ pc = "Completed"
    /\ max_chars > 0
    /\ \E k \in 1..Len(boundaries) :
           /\ Len(PairSlice(k)) = max_chars
           /\ Resp.segments[k].content = PairSlice(k)

\* Every segment record alive in the call or carried by its response.
LiveSegments ==
    { segments[k] : k \in 1..Len(segments) }
        \cup { segment[k] : k \in 1..Len(segment) }
        \cup (IF Returned THEN { Resp.segments[k] : k \in 1..Len(Resp.segments) }
              ELSE {})

\* C5 as stated: every segment that exists satisfies
\* 0 <= start_idx <= end_idx <= length(source_text), whatever pairs the
\* boundary provider returned.
IndicesAlwaysInRange ==
    \A seg \in LiveSegments : InRange(seg.start_idx, seg.end_idx)

\* C5 amended: a segment carries the indices of the pair it was built from,
\* before and after oversize resolution, so it satisfies
\* 0 <= start_idx <= end_idx <= length(source_text) whenever that pair does.
IndicesInRangeWhenPairIs ==
    /\ \A k \in 1..Len(segments) :
           /\ segments[k].start_idx = boundaries[k][1]
           /\ segments[k].end_idx = boundaries[k][2]
           /\ InRange(boundaries[k][1], boundaries[k][2]) =>
                  InRange(segments[k].start_idx, segments[k].end_idx)
    /\ (pc = "Process") =>
           /\ segment[1].start_idx = boundaries[i][1]
           /\ segment[1].end_idx = boundaries[i][2]
           /\ InRange(boundaries[i][1], boundaries[i][2]) =>
                  InRange(segment[1].start_idx, segment[1].end_idx)
    /\ Returned => (Resp.segments = <<>> \/ Resp.segments = segments)

\* C5 witness: an in-range pair was built and then summarized.
IndicesInRangeWhenPairIsWitness ==
    /\ pc = "Completed"
    /\ \E k \in 1..Len(segments) :
           /\ segments[k].requires_summary
           /\ InRange(boundaries[k][1], boundaries[k][2])

\* C6 as stated: in a response with status_code = 200 every segment's
\* content is at most max_characters long, summaries included.
AllContentBounded ==
    (Returned /\ Resp.status_code = StatusOk) =>
        \A k \in 1..Len(Resp.segments) :
            Len(Resp.segments[k].content) <= max_chars

\* C6 amended: in a response with status_code = 200 every segment that was
\* not summarized has content of at most max_characters characters.
VerbatimContentBounded ==
    (Returned /\ Resp.status_code = StatusOk) =>
        \A k \in 1..Len(Resp.segments) :
            ~Resp.segments[k].requires_summary =>
                Len(Resp.segments[k].content) <= max_chars

\* C6 witness: a response with a verbatim segment at the limit next to a
\* summary that is longer than the limit.
VerbatimContentBoundedWitness ==
    /\ Returned
    /\ Resp.status_code = StatusOk
    /\ max_chars > 0
    /\ \E k \in 1..Len(Resp.segments) :
           /\ ~Resp.segments[k].requires_summary
           /\ Len(Resp.segments[k].content) = max_chars
    /\ \E k \in 1..Len(Resp.segments) :
           /\ Resp.segments[k].requires_summary
           /\ Len(Resp.segments[k].content) > max_chars

\* C7: whenever a provider raises an error, error_message is a non-empty
\* string, the description of the failure, also for an error raised with no
\* message.
ErrorMessageNonEmpty ==
    (raised # None /\ IsException(raised[1])) =>
        /\ Returned
        /\ Resp.error_message # None
        /\ Resp.error_message[1] # ""

\* C8: every response has status_code 200 or 500, and error_message is
\* present exactly when status_code is not 200.
StatusAndMessageAgree ==
    Returned =>
        /\ Resp.status_code \in {StatusOk, StatusError}
        /\ (Resp.error_message # None) <=> (Resp.status_code # StatusOk)

\* C8 witness: a failure response whose message is present although empty.
StatusAndMessageAgreeWitness ==
    /\ Returned
    /\ Resp.status_code = StatusError
    /\ Resp.error_message = Some("")

\* C9: a call in which nothing raised ends with status_code = 200, no
\* error_message and the resolved segments, one per pair; an empty boundary
\* list gives segments = [] with status_code = 200.
SuccessPath ==
    /\ pc = "Failed" => raised # None
    /\ pc = "Completed" =>
           /\ raised = None
           /\ Returned
           /\ Resp.status_code = StatusOk
           /\ Resp.error_message = None
           /\ Resp.segments = segments
           /\ Len(Resp.segments) = Len(boundaries)
    /\ (pc = "Loop" /\ boundaries = <<>>) => (i > Len(boundaries) /\ segments = <<>>)
    /\ (Returned /\ raised = None) => Resp.status_code = StatusOk

\* C9 witness: the empty text with an empty boundary list was answered.
SuccessPathWitness ==
    /\ pc = "Completed"
    /\ text = <<>>
    /\ boundaries = <<>>
    /\ Resp.segments = <<>>
    /\ Resp.status_code = StatusOk

\* C10 as stated: a segment has been built for every boundary pair before
\* the summarizer is called for any segment, so no failure to build a
\* segment comes after a summarizer call.
StagesStrictlySequential ==
    /\ \A p \in 1..Len(trace) :
           trace[p].op = "summarizer" => BuiltBefore(p) = Len(boundaries)
    /\ \A p \in 1..Len(trace) :
           trace[p].op = "unpack" =>
               \A q \in 1..(p - 1) : trace[q].op # "summarizer"

\* C10 amended: the boundary provider is called first and once; the pairs
\* are then taken one at a time in order, each segment being built and, if
\* oversize, summarized before the next pair is touched.
PairsHandledOneAtATime ==
    /\ \A p \in 1..Len(trace) : (trace[p].op = "model_handler") <=> (p = 1)
    /\ \A p \in 1..Len(trace) :
           trace[p].op \in {"TextSegment", "unpack"} =>
               trace[p].idx = BuiltBefore(p) + 1
    /\ \A p \in 1..Len(trace) :
           trace[p].op = "summarizer" =>
               /\ p > 1
               /\ trace[p - 1].op = "TextSegment"
               /\ trace[p - 1].idx = trace[p].idx

\* C10 witness: building the second segment failed after the summarizer
\* had been called for the first.
PairsHandledOneAtATimeWitness ==
    /\ pc = "Failed"
    /\ Len(trace) = 4
    /\ trace[3].op = "summarizer"
    /\ trace[3].idx = 1
    /\ trace[4].op = "unpack"
    /\ trace[4].idx = 2

\* C11: oversize resolution keeps a segment's indices: the segment that
\* _process_large_segment returned (the one just appended) has the
\* start_idx and end_idx of the segment it was given, summarized or not,
\* and the segment it was given is still the record that was built from the
\* pair: the original slice, the pair's indices, requires_summary = false.
ResolutionKeepsIndices ==
    (pc = "Loop" /\ segment # None) =>
        /\ i >= 2
        /\ Len(segments) = i - 1
        /\ segments[i - 1].start_idx = segment[1].start_idx
        /\ segments[i - 1].end_idx = segment[1].end_idx
        /\ segment[1] = [content |-> PairSlice(i - 1),
                         start_idx |-> boundaries[i - 1][1],
                         end_idx |-> boundaries[i - 1][2],
                         requires_summary |-> FALSE]

\* C11 witness: a segment was just resolved into a summary with a different
\* content.
ResolutionKeepsIndicesWitness ==
    /\ pc = "Loop"
    /\ segment # None
    /\ segments[i - 1].requires_summary
    /\ segments[i - 1].content # segment[1].content
    /\ segment[1].end_idx > segment[1].start_idx

\* The calls made to the boundary provider in this run.
ModelHandlerCalls == { p \in 1..Len(trace) : trace[p].op = "model_handler" }

\* The state part of C12.
ProviderCallsOnce ==
    /\ Cardinality(ModelHandlerCalls) = (IF pc \in {"Idle", "Received"} THEN 0 ELSE 1)
    /\ \A k \in 1..Len(boundaries) : Cardinality(SummarizerCalls(k)) <= 1
    /\ \A k \in 1..Len(segments) :
           (Cardinality(SummarizerCalls(k)) = 1) <=> (Len(PairSlice(k)) > max_chars)
    /\ \A p, q \in 1..Len(trace) :
           (p < q /\ trace[p].op = "summarizer" /\ trace[q].op = "summarizer") =>
               trace[p].idx < trace[q].idx
    /\ raised # None => pc \in {"Failed", "Raised"}

\* C12: no retries within a run: the boundary provider is called exactly
\* once, the summarizer exactly once for each oversize segment, in boundary
\* order, and never for a segment within the limit; once an error has been
\* raised, no further call is made in that run (the record of calls stays as
\* it is until the next request starts a new run).
NoRetries ==
    /\ []ProviderCallsOnce
    /\ [][raised # None => (trace' = trace \/ (pc' = "Received" /\ trace' = <<>>))]_vars

\* C12 witness: two oversize segments, the summarizer was called for the
\* first and raised on the second, and the run ended there.
NoRetriesWitness ==
    /\ pc = "Failed"
    /\ Len(trace) = 5
    /\ trace[3].op = "summarizer"
    /\ trace[3].idx = 1
    /\ trace[5].op = "summarizer"
    /\ trace[5].idx = 2

\* C13: calls in flight together on one agent do not affect each other:
\* whatever the interleaving, every caller gets the response its request
\* yields when run by itself on that agent, also when another call has
\* failed.
RunsIndependent ==
    \A r \in DOMAIN cpc :
        /\ cpc[r] \in {"Completed", "Failed"} => responses[r] # None
        /\ responses[r] # None =>
               responses[r][1] =
                   RunAlone(model_handler, summarizer_handler, brittle, requests[r])

\* C13 witness: one caller's request failed, another caller's different
\* request was answered with two segments.
RunsIndependentWitness ==
    /\ DOMAIN cpc = Runs
    /\ cpc[1] = "Failed"
    /\ cpc[2] = "Completed"
    /\ requests[1] # requests[2]
    /\ responses[1][1].status_code = StatusError
    /\ Len(responses[2][1].segments) = 2

\* C14: with deterministic providers, all calls made with the same request
\* on one agent return the same response, however many were made before.
SameRequestSameResponse ==
    /\ \A msg \in DOMAIN completed : Cardinality(completed[msg].results) <= 1
    /\ \A r \in DOMAIN cpc :
           responses[r] # None => responses[r][1] \in completed[requests[r]].results

\* C14 witness: a request was answered twice, with a response that holds a
\* summarized segment.
SameRequestSameResponseWitness ==
    \E msg \in DOMAIN completed :
        /\ completed[msg].n = 2
        /\ \E resp \in completed[msg].results :
               /\ resp.status_code = StatusOk
               /\ \E k \in 1..Len(resp.segments) : resp.segments[k].requires_summary

\* "[Summary] ", the first 100 characters of t (all of t if it is shorter),
\* "..."
DefaultSummaryOf(t) ==
    <<"[", "S", "u", "m", "m", "a", "r", "y", "]", " ">>
        \o SubSeq(t, 1, IF Len(t) < 100 THEN Len(t) ELSE 100)
        \o <<".", ".", ".">>

\* C15: an agent built without a summarizer uses the default one: every
\* summarized segment of its responses holds "[Summary] ", the first 100
\* characters of the pair's slice and "...", the same request always gets
\* the same response, and "ABCDEFGHIJ" with limit 5 and boundaries
\* [(0,4),(4,10)] is answered with status 200 and the second segment
\* {"[Summary] EFGHIJ...", 4, 10, true}.
DefaultSummarizerUsed ==
    summarizer_handler = "mock" =>
        /\ \A msg \in DOMAIN completed : Cardinality(completed[msg].results) <= 1
        /\ \A r \in DOMAIN cpc :
               cpc[r] = "Completed" =>
                   LET resp == responses[r][1]
                       bs == frames[Frame(r)].boundaries
                   IN  /\ \A k \in 1..Len(resp.segments) :
                              resp.segments[k].requires_summary =>
                                  resp.segments[k].content =
                                      DefaultSummaryOf(
                                          Slice(requests[r].text, bs[k][1], bs[k][2]))
                       /\ (/\ requests[r] = SegmentationMessage(ScenarioText, 5)
                           /\ model_handler = "split_at_4") =>
                              /\ resp.status_code = StatusOk
                              /\ Len(resp.segments) = 2
                              /\ resp.segments[2] =
                                     [content |-> <<"[", "S", "u", "m", "m", "a", "r",
                                                    "y", "]", " ", "E", "F", "G", "H",
                                                    "I", "J", ".", ".", ".">>,
                                      start_idx |-> 4, end_idx |-> 10,
                                      requires_summary |-> TRUE]

\* C15 witness: an agent without a supplied summarizer answered the worked
\* example, and answered the long text with a summary cut at 100 characters.
DefaultSummarizerUsedWitness ==
    /\ summarizer_handler = "mock"
    /\ model_handler = "split_at_4"
    /\ DOMAIN cpc = Runs
    /\ cpc[1] = "Completed"
    /\ cpc[2] = "Completed"
    /\ requests[1] = SegmentationMessage(ScenarioText, 5)
    /\ requests[2] = SegmentationMessage(LongText, 5)
    /\ responses[2][1].segments[2].end_idx - responses[2][1].segments[2].start_idx > 100
    /\ Len(responses[2][1].segments[2].content) = 113

====
